---- MODULE Spec2Model ----
(***************************************************************************)
(* Model of release.py, the release script of pyo365: the click commands   *)
(* build, upload, check and list, the version.json resolver and the        *)
(* external tools they call.                                               *)
(*                                                                         *)
(* Strings whose content the code inspects (the version strings) are       *)
(* sequences of one-character strings, so that split, int, str and join    *)
(* are computed and not assumed.  One run of the script is a sequence of   *)
(* steps: the handler up to its first external call, then one step per     *)
(* external tool (the tool's exit code and what it writes to dist are      *)
(* chosen by the environment).                                             *)
(***************************************************************************)
EXTENDS Integers, Sequences, FiniteSets, TLC

\* ------------------------------------------------------------------ bounds
\* Greatest number of dot-separated components of a --version argument and
\* of the version initially stored.
MaxParts == 2
\* Greatest number of auto-increments in a row without an explicit version
\* in between (caps the otherwise unbounded version counter).
MaxAuto == 2
\* list: greatest number of releases in the index response, and of artifacts
\* of one release.
MaxReleases == 2
MaxArtifacts == 2

\* --------------------------------------------------------------- constants
\* the sentinel 'auto' of --version
Auto == <<"a", "u", "t", "o">>
\* the messages the script prints
MsgAborting == "Aborting"
MsgNoDist == "No distribution files found. Please run 'build' command first"
MsgNoReleases == "No releases found for pyo365"
MsgNotFound == "Package \"pyo365\" not found on Pypi.org"
\* Python's None
NoneValue == "None"

\* ------------------------------------------------------- string functions
DigitSeq == <<"0", "1", "2", "3", "4", "5", "6", "7", "8", "9">>

IsDigit(c) == \E i \in 1..10 : DigitSeq[i] = c

DigitVal(c) == (CHOOSE i \in 1..10 : DigitSeq[i] = c) - 1

\* str.split('.'): the components between the dots, empty ones included;
\* the empty string splits into one empty component.
RECURSIVE Split(_)
Split(s) ==
  IF s = <<>> THEN << <<>> >>
  ELSE LET rest == Split(Tail(s))
       IN IF Head(s) = "."
          THEN << <<>> >> \o rest
          ELSE << <<Head(s)>> \o Head(rest) >> \o Tail(rest)

\* '.'.join(parts)
RECURSIVE Join(_)
Join(parts) ==
  IF parts = <<>> THEN <<>>
  ELSE IF Len(parts) = 1 THEN Head(parts)
  ELSE Head(parts) \o <<".">> \o Join(Tail(parts))

\* int(part) succeeds: over the characters of this model (digits, letters
\* and the dot) exactly the non-empty digit strings are accepted.
IntAccepts(part) == part # <<>> /\ \A i \in 1..Len(part) : IsDigit(part[i])

\* int(part) for an accepted part (base 10, leading zeros allowed)
RECURSIVE ParseInt(_)
ParseInt(part) ==
  IF part = <<>> THEN 0
  ELSE 10 * ParseInt(SubSeq(part, 1, Len(part) - 1)) + DigitVal(part[Len(part)])

\* str(n) for n >= 0: decimal digits without leading zeros
RECURSIVE IntToStr(_)
IntToStr(n) ==
  IF n < 10 THEN <<DigitSeq[n + 1]>>
  ELSE IntToStr(n \div 10) \o <<DigitSeq[(n % 10) + 1]>>

\* [int(part) for part in current_version.split('.')] does not raise
Parsable(v) == \A i \in 1..Len(Split(v)) : IntAccepts(Split(v)[i])

\* a slip: every part is incremented, not only the last
BumpEvery(nums) == [i \in 1..Len(nums) |-> nums[i] + 1]

\* line 36: version_parts[-1] += 1
BumpLast(nums) == [i \in 1..Len(nums) |-> IF i = Len(nums) THEN nums[i] + 1 ELSE nums[i]]

\* lines 35-37 of build_version_file: split and parse, increment, join
Increment(current) ==
  LET parts == Split(current)
      version_parts == [i \in 1..Len(parts) |-> ParseInt(parts[i])]
      bumped == BumpLast(version_parts)
  IN Join([i \in 1..Len(bumped) |-> IntToStr(bumped[i])])

\* a slip: an explicit version is not written, only 'auto' writes the file
build_version_file_auto_only(stored, provided) ==
  IF provided = Auto
  THEN IF Parsable(stored)
       THEN [raised |-> FALSE, wrote |-> TRUE, file |-> Increment(stored),
             current_version |-> stored, provided_version |-> Increment(stored)]
       ELSE [raised |-> TRUE, wrote |-> FALSE, file |-> stored,
             current_version |-> stored, provided_version |-> provided]
  ELSE [raised |-> FALSE, wrote |-> FALSE, file |-> stored,
        current_version |-> <<>>, provided_version |-> provided]

\* a slip: the joined version is not assigned to provided_version, the
\* sentinel itself is written
build_version_file_writes_sentinel(stored, provided) ==
  IF provided = Auto
  THEN IF Parsable(stored)
       THEN [raised |-> FALSE, wrote |-> TRUE, file |-> provided,
             current_version |-> stored, provided_version |-> provided]
       ELSE [raised |-> TRUE, wrote |-> FALSE, file |-> stored,
             current_version |-> stored, provided_version |-> provided]
  ELSE [raised |-> FALSE, wrote |-> TRUE, file |-> provided,
        current_version |-> <<>>, provided_version |-> provided]

\* a slip: a stored version that does not parse is silently reset
build_version_file_resets(stored, provided) ==
  IF provided = Auto
  THEN IF Parsable(stored)
       THEN [raised |-> FALSE, wrote |-> TRUE, file |-> Increment(stored),
             current_version |-> stored, provided_version |-> Increment(stored)]
       ELSE [raised |-> FALSE, wrote |-> TRUE, file |-> <<"0", ".", "0", ".", "1">>,
             current_version |-> stored,
             provided_version |-> <<"0", ".", "0", ".", "1">>]
  ELSE [raised |-> FALSE, wrote |-> TRUE, file |-> provided,
        current_version |-> <<>>, provided_version |-> provided]

\* build_version_file(provided_version) on a version.json holding `stored`:
\* what it leaves in the file, whether it raised, whether it opened the file
\* for writing, and its locals current_version and provided_version.
build_version_file(stored, provided) ==
  IF provided = Auto
  THEN IF Parsable(stored)
       THEN [raised |-> FALSE, wrote |-> TRUE, file |-> Increment(stored),
             current_version |-> stored, provided_version |-> Increment(stored)]
       ELSE [raised |-> TRUE, wrote |-> FALSE, file |-> stored,
             current_version |-> stored, provided_version |-> provided]
  ELSE [raised |-> FALSE, wrote |-> TRUE, file |-> provided,
        current_version |-> <<>>, provided_version |-> provided]

\* a slip: dist is cleared before the operator is asked
PrepareDistDeletesFirst(exists, files, f, confirm) ==
  IF exists /\ files # {}
  THEN IF f \/ confirm
       THEN [exists |-> TRUE, files |-> {}, cleared |-> TRUE, abort |-> FALSE]
       ELSE [exists |-> TRUE, files |-> {}, cleared |-> TRUE, abort |-> TRUE]
  ELSE [exists |-> exists, files |-> files, cleared |-> FALSE, abort |-> FALSE]

\* a slip: dist is not created again after rmtree
PrepareDistNoMkdir(exists, files, f, confirm) ==
  IF exists /\ files # {}
  THEN IF f \/ confirm
       THEN [exists |-> FALSE, files |-> {}, cleared |-> TRUE, abort |-> FALSE]
       ELSE [exists |-> exists, files |-> files, cleared |-> FALSE, abort |-> TRUE]
  ELSE [exists |-> exists, files |-> files, cleared |-> FALSE, abort |-> FALSE]

\* lines 53-61 of build: what becomes of dist (renamed to dist_delete,
\* removed and created again, or left alone), and whether the build aborts
PrepareDist(exists, files, f, confirm) ==
  IF exists /\ files # {}
  THEN IF f \/ confirm
       THEN [exists |-> TRUE, files |-> {}, cleared |-> TRUE, abort |-> FALSE]
       ELSE [exists |-> exists, files |-> files, cleared |-> FALSE, abort |-> TRUE]
  ELSE [exists |-> exists, files |-> files, cleared |-> FALSE, abort |-> FALSE]

\* a slip: `and` for `or`, an existing but empty dist counts as holding files
NoDistFilesAnd(exists, files) == ~exists /\ files = {}

\* `not dist_path.exists() or not list(dist_path.glob('*'))`
NoDistFiles(exists, files) == ~exists \/ files = {}

\* a slip: subprocess.call for subprocess.check_call, the exit code is dropped
CheckCallIgnores(rc) == FALSE

\* subprocess.check_call raises CalledProcessError on a non-zero exit code
CheckCallRaises(rc) == rc # 0

\* ------------------------------------------------------------------ inputs
\* The components the version strings of the model are built from.
Parts == { <<>>, <<"0">>, <<"9">>, <<"0", "9">>, <<"a">> }

RECURSIVE PartSeqs(_)
PartSeqs(n) ==
  IF n = 0 THEN { <<>> }
  ELSE LET shorter == PartSeqs(n - 1)
       IN shorter \cup { Append(ps, p) : ps \in shorter, p \in Parts }

\* the explicit --version values tried (the empty string is one of them)
ExplicitVersions == { Join(ps) : ps \in PartSeqs(MaxParts) }

\* a dotted-integer version: every component a non-empty digit string
WellFormed(v) ==
  \A i \in 1..Len(Split(v)) :
    Split(v)[i] # <<>> /\ \A j \in 1..Len(Split(v)[i]) : IsDigit(Split(v)[i][j])

\* the exit codes an external tool may return (zero, non-zero)
ExitCodes == {0, 1}

\* the version strings version.json may hold before the first run
InitialVersions == { v \in ExplicitVersions : WellFormed(v) }

\* the contents dist may have before the first run: absent, empty, or left
\* by an earlier build
InitialDists ==
  { [exists |-> FALSE, files |-> {}], [exists |-> TRUE, files |-> {}],
    [exists |-> TRUE, files |-> {"old"}] }

\* ------------------------------------------------------------------- state
VARIABLES
  versionFile,      \* the 'version' value of version.json
  distExists,       \* dist is a directory
  distFiles,        \* the entries of dist
  cmd,              \* the subcommand of the current (or last) run
  pc,               \* "shell" between runs, "done" when the process has
                    \* finished, else the external call awaited
  force,            \* build's force parameter
  rebuild,          \* upload's rebuild parameter
  release,          \* upload's release parameter
  cleared,          \* lines 56-58 ran in this run
  declined,         \* the operator declined click.confirm in this run
  prepared,         \* this run reached line 63 of build
  version,          \* build's version parameter, once line 63 has read it
  current_version,  \* build_version_file's local, once line 33 has set it
  wrote,            \* version.json was opened for writing in this run
  raised,           \* build_version_file raised in this run
  toolLog,          \* the external tools invoked in this run, with exit codes
  exitStatus,       \* exit status of the last finished run
  output,           \* the messages printed by this run
  autoRuns,         \* auto-increments since the last explicit version
  response,         \* list: the index response
  printed           \* list: the release lines printed

procVars == <<cmd, pc, force, rebuild, release, cleared, declined, prepared,
              version, current_version, wrote, raised, toolLog, exitStatus, output>>
fileVars == <<versionFile, distExists, distFiles, autoRuns>>
listVars == <<response, printed>>
vars == <<procVars, fileVars, listVars>>

NoResponse == [ok |-> FALSE, hasReleases |-> FALSE, releases |-> <<>>]

\* no process: the locals of the script do not exist
NoProcess ==
  /\ cmd = "none" /\ pc = "shell"
  /\ force = FALSE /\ rebuild = FALSE /\ release = FALSE
  /\ cleared = FALSE /\ declined = FALSE /\ prepared = FALSE
  /\ version = <<>> /\ current_version = <<>>
  /\ wrote = FALSE /\ raised = FALSE
  /\ toolLog = <<>> /\ exitStatus = 0 /\ output = <<>>

Init ==
  /\ versionFile \in InitialVersions
  /\ \E d \in InitialDists : distExists = d.exists /\ distFiles = d.files
  /\ NoProcess
  /\ autoRuns = 0
  /\ response = NoResponse /\ printed = <<>>

\* the body of build(force, version), lines 53-66, up to the call of
\* setup.py bdist_wheel; c is the subcommand it runs under
BuildBody(c, f, confirm, v) ==
  LET prep == PrepareDist(distExists, distFiles, f, confirm)
      res == build_version_file(versionFile, v)
  IN /\ cmd' = c
     /\ force' = f
     /\ toolLog' = <<>>
     /\ distExists' = prep.exists
     /\ distFiles' = prep.files
     /\ cleared' = prep.cleared
     /\ declined' = prep.abort
     /\ prepared' = ~prep.abort
     /\ IF prep.abort
        THEN \* click.echo('Aborting'); sys.exit(1)
             /\ output' = <<MsgAborting>>
             /\ exitStatus' = 1
             /\ pc' = "done"
             /\ version' = <<>> /\ current_version' = <<>>
             /\ wrote' = FALSE /\ raised' = FALSE
             /\ UNCHANGED <<versionFile, autoRuns>>
        ELSE /\ output' = <<>>
             /\ version' = v
             /\ IF v = <<>>
                THEN \* `if version:` is false, the version file is not touched
                     /\ current_version' = <<>>
                     /\ wrote' = FALSE /\ raised' = FALSE
                     /\ exitStatus' = 0
                     /\ pc' = "bdist_wheel"
                     /\ UNCHANGED <<versionFile, autoRuns>>
                ELSE /\ current_version' = res.current_version
                     /\ wrote' = res.wrote
                     /\ raised' = res.raised
                     /\ versionFile' = res.file
                     /\ autoRuns' = IF res.raised THEN autoRuns
                                    ELSE IF v = Auto THEN autoRuns + 1 ELSE 0
                     /\ exitStatus' = IF res.raised THEN 1 ELSE 0
                     /\ pc' = IF res.raised THEN "done" ELSE "bdist_wheel"

\* the --version values a run may be given
VersionArgs == ExplicitVersions \cup (IF autoRuns < MaxAuto THEN {Auto} ELSE {})

\* click.confirm is reached: dist holds files and force is off (lines 54-55)
Asked(f) == distExists /\ distFiles # {} /\ ~f

\* `release.py build [--force] [--version v]`; the operator answers only
\* when asked, and a build that aborts never reads its version parameter
Build ==
  /\ pc = "shell"
  /\ \E f \in BOOLEAN :
       \E confirm \in (IF Asked(f) THEN BOOLEAN ELSE {FALSE}) :
         \E v \in (IF Asked(f) /\ ~confirm THEN {<<>>} ELSE VersionArgs) :
           BuildBody("build", f, confirm, v)
  /\ rebuild' = FALSE /\ release' = FALSE
  /\ UNCHANGED listVars

\* subprocess.check_call(['python', 'setup.py', 'bdist_wheel']), line 66
BdistWheel ==
  /\ pc = "bdist_wheel"
  /\ \E rc \in ExitCodes :
       /\ toolLog' = Append(toolLog, [tool |-> "bdist_wheel", rc |-> rc])
       /\ distExists' = (distExists \/ rc = 0)
       /\ distFiles' = IF rc = 0 THEN distFiles \cup {"whl"} ELSE distFiles
       /\ pc' = IF CheckCallRaises(rc) THEN "done" ELSE "sdist"
       /\ exitStatus' = IF CheckCallRaises(rc) THEN 1 ELSE 0
  /\ UNCHANGED <<cmd, force, rebuild, release, cleared, declined, prepared,
                 version, current_version, wrote, raised, output>>
  /\ UNCHANGED <<versionFile, autoRuns>>
  /\ UNCHANGED listVars

\* subprocess.check_call(['python', 'setup.py', 'sdist', ...]), lines 67-68;
\* under upload, build returns to line 87
Sdist ==
  /\ pc = "sdist"
  /\ \E rc \in ExitCodes :
       /\ toolLog' = Append(toolLog, [tool |-> "sdist", rc |-> rc])
       /\ distExists' = (distExists \/ rc = 0)
       /\ distFiles' = IF rc = 0 THEN distFiles \cup {"tgz"} ELSE distFiles
       /\ pc' = IF ~CheckCallRaises(rc) /\ cmd = "upload" THEN "twine_upload" ELSE "done"
       /\ exitStatus' = IF CheckCallRaises(rc) THEN 1 ELSE 0
  /\ UNCHANGED <<cmd, force, rebuild, release, cleared, declined, prepared,
                 version, current_version, wrote, raised, output>>
  /\ UNCHANGED <<versionFile, autoRuns>>
  /\ UNCHANGED listVars

\* `release.py upload [--release] [--no-rebuild] [--version v]`, lines 79-85;
\* without rebuild the version parameter is never read
Upload ==
  /\ pc = "shell"
  /\ \E rel \in BOOLEAN, reb \in BOOLEAN :
     \E v \in (IF reb THEN VersionArgs ELSE {<<>>}) :
       /\ release' = rel
       /\ rebuild' = reb
       /\ IF reb
          THEN \* ctx.invoke(build, force=True, version=version)
               BuildBody("upload", TRUE, FALSE, v)
          ELSE /\ cmd' = "upload"
               /\ force' = FALSE /\ cleared' = FALSE /\ declined' = FALSE
               /\ prepared' = FALSE
               /\ version' = <<>> /\ current_version' = <<>>
               /\ wrote' = FALSE /\ raised' = FALSE
               /\ toolLog' = <<>>
               /\ exitStatus' = 0
               /\ IF NoDistFiles(distExists, distFiles)
                  THEN output' = <<MsgNoDist>> /\ pc' = "done"
                  ELSE output' = <<>> /\ pc' = "twine_upload"
               /\ UNCHANGED fileVars
  /\ UNCHANGED listVars

\* subprocess.Popen(['twine', 'upload', ...]); p.wait(), lines 87-96: the
\* exit code is awaited and dropped
TwineUpload ==
  /\ pc = "twine_upload"
  /\ \E rc \in ExitCodes :
       toolLog' = Append(toolLog, [tool |-> "twine_upload", rc |-> rc])
  /\ pc' = "done"
  /\ exitStatus' = 0
  /\ UNCHANGED <<cmd, force, rebuild, release, cleared, declined, prepared,
                 version, current_version, wrote, raised, output>>
  /\ UNCHANGED fileVars
  /\ UNCHANGED listVars

\* `release.py check`, lines 102-105
Check ==
  /\ pc = "shell"
  /\ cmd' = "check"
  /\ force' = FALSE /\ rebuild' = FALSE /\ release' = FALSE
  /\ cleared' = FALSE /\ declined' = FALSE /\ prepared' = FALSE
  /\ version' = <<>> /\ current_version' = <<>>
  /\ wrote' = FALSE /\ raised' = FALSE
  /\ toolLog' = <<>>
  /\ exitStatus' = 0
  /\ IF NoDistFiles(distExists, distFiles)
     THEN output' = <<MsgNoDist>> /\ pc' = "done"
     ELSE output' = <<>> /\ pc' = "twine_check"
  /\ UNCHANGED fileVars
  /\ UNCHANGED listVars

\* subprocess.check_call(['twine', 'check', 'dist/*']), line 107
TwineCheck ==
  /\ pc = "twine_check"
  /\ \E rc \in ExitCodes :
       /\ toolLog' = Append(toolLog, [tool |-> "twine_check", rc |-> rc])
       /\ exitStatus' = IF CheckCallRaises(rc) THEN 1 ELSE 0
  /\ pc' = "done"
  /\ UNCHANGED <<cmd, force, rebuild, release, cleared, declined, prepared,
                 version, current_version, wrote, raised, output>>
  /\ UNCHANGED fileVars
  /\ UNCHANGED listVars

\* the finished process is reaped: the operator is back at the shell
Exit ==
  /\ pc = "done"
  /\ cmd' = "none" /\ pc' = "shell"
  /\ force' = FALSE /\ rebuild' = FALSE /\ release' = FALSE
  /\ cleared' = FALSE /\ declined' = FALSE /\ prepared' = FALSE
  /\ version' = <<>> /\ current_version' = <<>>
  /\ wrote' = FALSE /\ raised' = FALSE
  /\ toolLog' = <<>> /\ exitStatus' = 0 /\ output' = <<>>
  /\ UNCHANGED fileVars
  /\ UNCHANGED listVars

Next ==
  Build \/ BdistWheel \/ Sdist \/ Upload \/ TwineUpload \/ Check \/ TwineCheck \/ Exit

Spec == Init /\ [][Next]_vars

\* ---------------------------------------------------------------- list
\* the values of the index response the model tries
ReleaseVersions == {"1.0.0", "1.0.1", "2.0.0"}
PackageTypes == {"sdist", "bdist_wheel"}
UploadTimes == {"2020-01-01T00:00:00", "2020-01-01T00:05:00"}

Artifacts == [packagetype : PackageTypes, upload_time : UploadTimes]

RECURSIVE SeqsUpTo(_, _)
SeqsUpTo(S, n) ==
  IF n = 0 THEN { <<>> }
  ELSE LET shorter == SeqsUpTo(S, n - 1)
       IN shorter \cup { Append(q, x) : q \in shorter, x \in S }

Releases == [version : ReleaseVersions, artifacts : SeqsUpTo(Artifacts, MaxArtifacts)]

\* the 'releases' mapping in document order: no version occurs twice
ReleaseMaps ==
  { rs \in SeqsUpTo(Releases, MaxReleases) :
      \A i, j \in 1..Len(rs) : rs[i].version = rs[j].version => i = j }

Responses ==
  { [ok |-> o, hasReleases |-> FALSE, releases |-> <<>>] : o \in BOOLEAN }
  \cup { [ok |-> o, hasReleases |-> TRUE, releases |-> rs] : o \in BOOLEAN, rs \in ReleaseMaps }

\* ' | '.join(release_formats)
RECURSIVE JoinBar(_)
JoinBar(labels) ==
  IF labels = <<>> THEN <<>>
  ELSE IF Len(labels) = 1 THEN labels
  ELSE <<Head(labels), " | ">> \o JoinBar(Tail(labels))

\* lines 122-126: the loop over one release's artifacts
RECURSIVE ScanRelease(_, _, _)
ScanRelease(rel, release_formats, published_on_date) ==
  IF rel = <<>>
  THEN [release_formats |-> release_formats, published_on_date |-> published_on_date]
  ELSE ScanRelease(Tail(rel), Append(release_formats, Head(rel).packagetype),
                   Head(rel).upload_time)

\* '{:>15}'.format(published_on_date) raises TypeError for None
FormatRaises(published_on_date) == published_on_date = NoneValue

\* lines 121-129: the loop over the releases; a line is the three values
\* given to format (the padding to widths 10, 15, 25 is not modelled)
RECURSIVE PrintReleases(_)
PrintReleases(rs) ==
  IF rs = <<>> THEN [printed |-> <<>>, status |-> 0]
  ELSE LET scan == ScanRelease(Head(rs).artifacts, <<>>, NoneValue)
           rest == PrintReleases(Tail(rs))
       IN IF FormatRaises(scan.published_on_date)
          THEN [printed |-> <<>>, status |-> 1]
          ELSE [printed |-> << [version |-> Head(rs).version,
                                 published_on_date |-> scan.published_on_date,
                                 release_formats |-> JoinBar(scan.release_formats)] >>
                            \o rest.printed,
                status |-> rest.status]

\* `release.py list`, lines 112-133
list_releases ==
  /\ pc = "shell"
  /\ cmd' = "list"
  /\ pc' = "done"
  /\ IF response.ok
     THEN LET releases_dict == IF response.hasReleases THEN response.releases ELSE <<>>
          IN IF releases_dict # <<>>
             THEN /\ printed' = PrintReleases(releases_dict).printed
                  /\ exitStatus' = PrintReleases(releases_dict).status
                  /\ output' = <<>>
             ELSE /\ printed' = <<>>
                  /\ exitStatus' = 0
                  /\ output' = <<MsgNoReleases>>
     ELSE /\ printed' = <<>>
          /\ exitStatus' = 0
          /\ output' = <<MsgNotFound>>
  /\ UNCHANGED <<force, rebuild, release, cleared, declined, prepared,
                 version, current_version, wrote, raised, toolLog>>
  /\ UNCHANGED fileVars
  /\ UNCHANGED response

InitList ==
  /\ versionFile = <<"0">>
  /\ distExists = FALSE /\ distFiles = {}
  /\ NoProcess
  /\ autoRuns = 0
  /\ response \in Responses
  /\ printed = <<>>

NextList == list_releases

SpecList == InitList /\ [][NextList]_vars

\* ------------------------------------------------------------ properties
\* build_version_file('auto') has run in this run and has written the file
AutoIncremented == pc # "shell" /\ prepared /\ version = Auto /\ wrote

\* a decimal numeral without leading zeros
Canonical(part) ==
  /\ part # <<>>
  /\ \A i \in 1..Len(part) : IsDigit(part[i])
  /\ (Len(part) > 1 => part[1] # "0")

\* C1 as stated: after build_version_file('auto') on a well-formed stored
\* version, the new version has as many components as the old one, every
\* component but the last is the same text as before, and the last component
\* is the old last component plus one.
C1_AutoIncrementKeepsPrefixText ==
  (AutoIncremented /\ WellFormed(current_version)) =>
    LET old == Split(current_version)
        new == Split(versionFile)
    IN /\ Len(new) = Len(old)
       /\ \A i \in 1..(Len(old) - 1) : new[i] = old[i]
       /\ Canonical(new[Len(new)])
       /\ ParseInt(new[Len(new)]) = ParseInt(old[Len(old)]) + 1

\* C1 amended: after build_version_file('auto') on a well-formed stored
\* version, the new version has as many components as the old one, every
\* component but the last has the integer value it had, the last has the old
\* last value plus one, and every component is written as a decimal numeral
\* without leading zeros: a component is the same text as before exactly when
\* it had no leading zeros.
C1_AutoIncrementKeepsPrefixValue ==
  (AutoIncremented /\ WellFormed(current_version)) =>
    LET old == Split(current_version)
        new == Split(versionFile)
    IN /\ Len(new) = Len(old)
       /\ \A i \in 1..Len(new) : Canonical(new[i])
       /\ \A i \in 1..(Len(old) - 1) :
            /\ ParseInt(new[i]) = ParseInt(old[i])
            /\ (new[i] = old[i]) <=> Canonical(old[i])
       /\ ParseInt(new[Len(new)]) = ParseInt(old[Len(old)]) + 1

\* C1 witness: an auto-increment of a two-component version whose first
\* component has a leading zero and whose last component carries
C1_Witness ==
  /\ AutoIncremented
  /\ current_version = <<"0", "9", ".", "0", "9">>
  /\ versionFile = <<"9", ".", "1", "0">>

\* C2 as stated: once build has passed the directory preparation with a
\* --version other than 'auto', version.json holds exactly that string.
C2_ExplicitVersionStored ==
  (prepared /\ version # Auto) => versionFile = version

\* C2 amended: once build has passed the directory preparation with a
\* non-empty --version other than 'auto', version.json has been written and
\* holds exactly that string, untransformed; an empty --version leaves the
\* file as it was.
C2_NonEmptyExplicitVersionStored ==
  (prepared /\ version # Auto) =>
    IF version # <<>> THEN wrote /\ versionFile = version ELSE ~wrote

\* C2 witness: a finished build given the explicit version "09.a"
C2_Witness ==
  /\ pc = "done" /\ cmd = "build" /\ prepared
  /\ version = <<"0", "9", ".", "a">>
  /\ exitStatus = 0

\* C3 as stated: version.json always holds a well-formed dotted-integer
\* version, whatever --version arguments the runs were given.
C3_VersionFileAlwaysWellFormed == WellFormed(versionFile)

\* C3 amended: a step of a run whose --version is 'auto', empty or a
\* well-formed dotted-integer string takes a well-formed version.json to a
\* well-formed version.json; so from a well-formed file, any sequence of
\* build and upload runs with such arguments leaves it well-formed.
C3_WellFormedArgsKeepWellFormed ==
  [][ (/\ WellFormed(versionFile)
       /\ (version' = Auto \/ version' = <<>> \/ WellFormed(version')))
      => WellFormed(versionFile') ]_vars

\* C3 witness: the second auto-increment in a row has written a well-formed
\* version
C3_Witness ==
  /\ AutoIncremented /\ autoRuns = 2
  /\ WellFormed(current_version) /\ WellFormed(versionFile)
  /\ versionFile # current_version

\* C4: when dist is not empty, force is off and the operator declines, build
\* leaves dist exactly as it was, invokes no tool and ends with a non-zero
\* exit status.
C4_DeclineDeletesNothing ==
  [][ declined' =>
        /\ ~force'
        /\ distExists /\ distFiles # {}
        /\ distExists' = distExists /\ distFiles' = distFiles
        /\ toolLog' = <<>>
        /\ pc' = "done" /\ exitStatus' # 0 ]_vars

\* C4 witness: a build that ended on the declined confirmation
C4_Witness ==
  /\ declined /\ cmd = "build" /\ ~force /\ pc = "done"
  /\ output = <<MsgAborting>> /\ distFiles = {"old"}

\* C5: when dist was not empty and force is on, dist exists and is empty at
\* the moment setup.py bdist_wheel is invoked, and no tool has run before.
C5_ForcedBuildStartsEmpty ==
  (pc = "bdist_wheel" /\ force /\ cleared) =>
    distExists /\ distFiles = {} /\ toolLog = <<>>

\* C5 witness: a forced build of a non-empty dist about to call bdist_wheel
C5_Witness == pc = "bdist_wheel" /\ cmd = "build" /\ force /\ cleared

\* C6: upload without rebuild on an absent or empty dist prints the
\* 'No distribution files found' guidance, ends with status zero, and has
\* invoked neither build (no tool, no version-file write) nor twine upload.
C6_UploadWithoutFilesDoesNothing ==
  (cmd = "upload" /\ ~rebuild /\ (~distExists \/ distFiles = {})) =>
    /\ pc = "done"
    /\ output = <<MsgNoDist>>
    /\ exitStatus = 0
    /\ toolLog = <<>>
    /\ ~prepared /\ ~wrote

\* C6 witness: an upload without rebuild that found dist existing but empty
C6_Witness ==
  /\ cmd = "upload" /\ ~rebuild /\ distExists /\ distFiles = {}
  /\ output = <<MsgNoDist>>

\* C7 as stated: a finished run has a non-zero exit status exactly when the
\* operator declined the confirmation or some tool it invoked exited
\* non-zero.
C7_ExitStatusReflectsFailures ==
  pc = "done" =>
    ((exitStatus # 0) <=>
       (declined \/ \E i \in 1..Len(toolLog) : toolLog[i].rc # 0))

\* the build tools and the upload tool, in the order of the code
ToolOrder == <<"bdist_wheel", "sdist", "twine_upload">>

\* C9: in a build, or an upload with rebuild, the tools run in the order
\* bdist_wheel, sdist, twine upload (the last under upload only), each at
\* most once, and a build tool that exits non-zero is the last tool of the
\* run, which ends as a failure.
C9_ToolOrderAndFailFast ==
  (cmd = "build" \/ (cmd = "upload" /\ rebuild)) =>
    /\ Len(toolLog) <= (IF cmd = "build" THEN 2 ELSE 3)
    /\ \A i \in 1..Len(toolLog) : toolLog[i].tool = ToolOrder[i]
    /\ \A i \in 1..Len(toolLog) :
         (toolLog[i].tool # "twine_upload" /\ toolLog[i].rc # 0) =>
           (i = Len(toolLog) /\ pc = "done" /\ exitStatus # 0)

\* C9 witness: an upload with rebuild whose bdist_wheel failed
C9_Witness ==
  /\ cmd = "upload" /\ rebuild /\ pc = "done"
  /\ toolLog = << [tool |-> "bdist_wheel", rc |-> 1] >>

\* the stored version has a component int() rejects
HasNonInteger(v) ==
  \E i \in 1..Len(Split(v)) :
    Split(v)[i] = <<>> \/ \E j \in 1..Len(Split(v)[i]) : ~IsDigit(Split(v)[i][j])

\* C10: when 'auto' is requested and the stored version has a component that
\* is not an integer, the run ends in an error before any tool is invoked
\* and version.json is neither opened for writing nor changed.
C10_MalformedStoredVersionFailsFast ==
  (prepared /\ version = Auto /\ HasNonInteger(current_version)) =>
    /\ raised
    /\ pc = "done" /\ exitStatus # 0
    /\ toolLog = <<>>
    /\ ~wrote
    /\ versionFile = current_version

\* C10 witness: 'auto' requested on the stored version "9.a"
C10_Witness ==
  /\ prepared /\ version = Auto
  /\ current_version = <<"9", ".", "a">>

\* the labels of a release's artifacts with ' | ' between them
RECURSIVE Labels(_)
Labels(arts) ==
  IF arts = <<>> THEN <<>>
  ELSE IF Len(arts) = 1 THEN <<arts[1].packagetype>>
  ELSE <<arts[1].packagetype, " | ">> \o Labels(Tail(arts))

\* C8 as stated: list prints only the 'not found' message for an
\* unsuccessful response, only the 'No releases found' message for an empty
\* or missing 'releases' mapping, and otherwise exactly one line per release
\* version with the version, the upload_time of the last artifact and the
\* packagetype labels joined by ' | ' in order of appearance.
C8_ListOutput ==
  (pc = "done" /\ cmd = "list") =>
    IF ~response.ok
    THEN output = <<MsgNotFound>> /\ printed = <<>>
    ELSE IF ~response.hasReleases \/ response.releases = <<>>
    THEN output = <<MsgNoReleases>> /\ printed = <<>>
    ELSE /\ output = <<>>
         /\ Len(printed) = Len(response.releases)
         /\ \A i \in 1..Len(printed) :
              LET arts == response.releases[i].artifacts
              IN /\ printed[i].version = response.releases[i].version
                 /\ printed[i].published_on_date = arts[Len(arts)].upload_time
                 /\ printed[i].release_formats = Labels(arts)

====
